---- MODULE Spec2Model ----
(***************************************************************************)
(* A state-machine model of the book-shelf scene of src/src/script.js      *)
(* (class Texture): the scroll-driven orbit placement, the click-driven    *)
(* open/close transition with its GSAP timeline, the hover preview, the    *)
(* per-frame clip clamp, the monkey-patched checkAnimationProgress         *)
(* wrappers, the promise-based close-all and the scroll-reversal recovery  *)
(* sequence.  src/src/main.js is the simpler variant of the same class.    *)
(*                                                                         *)
(* Units.  Scroll progress p in [0,1] is the integer p in 0..PMax standing *)
(* for p/PMax.  Clip time is counted in tenths of the clip's               *)
(* originalDuration.  A coordinate of a transform is a triple <<kind,a,b>>:*)
(*   <<"num", h, 0>>   the number h/100                                    *)
(*   <<"cos", r, n>>   (r/10) * cos(n/PMax * pi/1000)                       *)
(*   <<"sin", r, n>>   (r/10) * sin(n/PMax * pi/1000)                       *)
(*   <<"deg", n, 0>>   an angle of n/PMax degrees                          *)
(*   <<"tween", 0, 0>> a value in the middle of a running GSAP tween       *)
(*   <<"recorded", 0, 0>> the start value a GSAP tween recorded when it    *)
(*                     first rendered, written back at progress 0          *)
(* A position is the pair <<x, y>>: position.z takes part in no orbit      *)
(* placement and no handler reads it.  A rotation is <<x, y, z>>.          *)
(*                                                                         *)
(* Time.  A frame of the render loop advances the clips by delta tenths of *)
(* a clip.  A tick of the GSAP ticker advances every running GSAP          *)
(* animation: an open/close timeline goes "start" -> "mid" -> "end" at     *)
(* timeScale 1 and back to "start" in one tick at timeScale 2.             *)
(***************************************************************************)
EXTENDS Integers, Sequences, FiniteSets, TLC

\* ------------------------------------------------------------------ bounds
PMax == 2
MaxDelta == 5
MaxWrappers == 3
MaxPromises == 2
MaxClicks == 1
MaxPointer == 1
MaxClicksLong == 3
MaxScrolls == 3
MaxLoadedBooks == 1

\* ------------------------------------------------------- program constants
NumBooks == 4
ClickPlayTenths == 9
HoverPlayTenths == 2
DurationTenths == 10
TriggerStart == 0
TriggerRange == 300

Books == 0..(NumBooks - 1)
Progress == 0..PMax
Deltas == {MaxDelta}

\* the slots whose load succeeded before onAllBooksLoaded ran
LoadedAtStart == {0, 1}

\* gltf.animations.length of the books loaded, one clip each
OneClipEach == [i \in LoadedAtStart |-> 1]

\* a book with two clips next to a book without any
TwoClipsAndNone == (0 :> 2) @@ (1 :> 0)

\* the numbers of clips a loaded file brings in the loading runs
ClipCounts == {1}

\* three books loaded, one clip each
ThreeBooks == [i \in {0, 1, 2} |-> 1]

Num(h) == <<"num", h, 0>>
Deg(n) == <<"deg", n, 0>>
Tween == <<"tween", 0, 0>>
Recorded == <<"recorded", 0, 0>>

\* finalPositions[index], in hundredths
finalPositions == << <<Num(-150), Num(-20)>>, <<Num(-50), Num(-20)>>,
                     <<Num(50), Num(-20)>>, <<Num(150), Num(-20)>> >>

\* --------------------------------------------------------- orbit placement
\* the tables of updateBookPositions: radii in tenths, angles in pi/1000
ellipseConfigs == << [radiusX |-> 13, radiusY |-> 7], [radiusX |-> 11, radiusY |-> 5],
                     [radiusX |-> 9, radiusY |-> 4], [radiusX |-> 7, radiusY |-> 3] >>

angleConfigs == << [start |-> -1000, endX |-> -2200, endY |-> -2140],
                   [start |-> -1200, endX |-> -2350, endY |-> -2200],
                   [start |-> -1400, endX |-> -2500, endY |-> -2265],
                   [start |-> -1600, endX |-> -2800, endY |-> -2450] >>

\* the tables of calculateBookPositionsForProgress (a second copy in the source)
calcEllipseConfigs == << [radiusX |-> 13, radiusY |-> 7], [radiusX |-> 11, radiusY |-> 5],
                         [radiusX |-> 9, radiusY |-> 4], [radiusX |-> 7, radiusY |-> 3] >>

calcAngleConfigs == << [start |-> -1000, endX |-> -2200, endY |-> -2140],
                       [start |-> -1200, endX |-> -2350, endY |-> -2200],
                       [start |-> -1400, endX |-> -2500, endY |-> -2265],
                       [start |-> -1600, endX |-> -2800, endY |-> -2450] >>

\* x = centerX + radiusX * cos(start + (endX - start) * progress), centerX = 0
orbitX(p, i) ==
    LET c == angleConfigs[i + 1]
    IN <<"cos", ellipseConfigs[i + 1].radiusX, c.start * PMax + (c.endX - c.start) * p>>

\* y = centerY + radiusY * sin(start + (endY - start) * progress), centerY = 0
orbitY(p, i) ==
    LET c == angleConfigs[i + 1]
    IN <<"sin", ellipseConfigs[i + 1].radiusY, c.start * PMax + (c.endY - c.start) * p>>

\* rotation.set(progress * 90deg, 0, progress * (-28 - i * 20)deg)
orbitRotation(p, i) == <<Deg(p * 90), Deg(0), Deg(p * (-28 - i * 20))>>

\* updateBookPositions without the isOpen / isClickPlaying guard of its forEach body
updateBookPositions_NoGuard(bk, p) ==
    [i \in Books |->
        IF ~bk[i].present THEN bk[i]
        ELSE [bk[i] EXCEPT !.position = <<orbitX(p, i), orbitY(p, i)>>,
                           !.rotation = orbitRotation(p, i)]]

\* updateBookPositions with position.set() only, without the rotation.set()
updateBookPositions_PositionOnly(bk, p) ==
    [i \in Books |->
        IF ~bk[i].present THEN bk[i]
        ELSE IF ~bk[i].isOpen /\ ~bk[i].isClickPlaying
             THEN [bk[i] EXCEPT !.position = <<orbitX(p, i), orbitY(p, i)>>]
             ELSE bk[i]]

\* updateBookPositions(progress): the books it may move go to their orbit placement
updateBookPositions(bk, p) ==
    [i \in Books |->
        IF ~bk[i].present THEN bk[i]
        ELSE IF ~bk[i].isOpen /\ ~bk[i].isClickPlaying
             THEN [bk[i] EXCEPT !.position = <<orbitX(p, i), orbitY(p, i)>>,
                                !.rotation = orbitRotation(p, i)]
             ELSE bk[i]]

\* camera.position.x = 1.4 - progress, in tenths scaled by PMax
cameraXFor(p) == 14 * PMax - 10 * p

\* calculateBookPositionsForProgress with the x angle used for y as well
calculateBookPositionsForProgress_OneAngle(p) ==
    [i \in 0..3 |->
        LET c == calcAngleConfigs[i + 1]
            e == calcEllipseConfigs[i + 1]
        IN << <<"cos", e.radiusX, c.start * PMax + (c.endX - c.start) * p>>,
              <<"sin", e.radiusY, c.start * PMax + (c.endX - c.start) * p>> >>]

\* positions[i] = {x, y} of calculateBookPositionsForProgress
calculateBookPositionsForProgress(p) ==
    [i \in 0..3 |->
        LET c == calcAngleConfigs[i + 1]
            e == calcEllipseConfigs[i + 1]
        IN << <<"cos", e.radiusX, c.start * PMax + (c.endX - c.start) * p>>,
              <<"sin", e.radiusY, c.start * PMax + (c.endY - c.start) * p>> >>]

\* targetRotation of the recovery's position transition for book index
targetRotation(targetProgress, index) ==
    <<Deg(targetProgress * 90), Deg(0), Deg(targetProgress * (-28 - index * 20))>>

\* endScrollY = self.start + (self.end - self.start) * targetProgress, scaled by PMax
scrollOffsetFor(p) == TriggerStart * PMax + TriggerRange * p

VARIABLES
    bookInstances,        \* [Books -> book record]
    checkChain,           \* this.checkAnimationProgress: the installed wrappers, outermost first
    promises,             \* the pending aggregate promises' closures
    bookClosePromise,     \* this.bookClosePromise: 0 (null) or a promise id
    isClosingFromScroll,
    canInteract,
    currentHoveredIndex,
    lastProgress,         \* the closure variable of animateBookEntry
    driverEnabled,        \* the ScrollTrigger's enabled flag
    leaveBackDue,         \* the driver is about to call onLeaveBack
    recovery,             \* the continuation of the recovery sequence
    scrollY,              \* window.scrollY, scaled by PMax
    cameraX,
    inputsLeft            \* the clicks, pointer events and scrolls the user has still to
                          \* give; a negative number of scrolls stands for any number
VARIABLES
    retoggled             \* history: the books toggled again while they were Opening
VARIABLES
    pendingLoads,         \* the slots whose gltfLoader.load() has not called back yet
    loadedCount,          \* the closure variable of loadBooks
    allBooksLoadedCalls   \* history: the number of calls of onAllBooksLoaded

vars == <<bookInstances, checkChain, promises, bookClosePromise, isClosingFromScroll,
          canInteract, currentHoveredIndex, lastProgress, driverEnabled, leaveBackDue,
          recovery, scrollY, cameraX, inputsLeft, retoggled,
          pendingLoads, loadedCount, allBooksLoadedCalls>>

\* ------------------------------------------------------------ book records
NoCallback == 0
StaleCallback == -1

\* book.openTimeline before toggleBookAnimationWithCallback builds it (null)
NoTimeline ==
    [built |-> FALSE, paused |-> TRUE, reversed |-> FALSE, at |-> "start",
     callback |-> NoCallback]

\* one entry of animationActions; paused also stands for "not yet played"
NewAction == [time |-> 0, timeScale |-> 1, paused |-> TRUE]

\* the bookInstance object of loadBooks, with nClips animation clips
NewBook(i, nClips) ==
    [present |-> TRUE, isOpen |-> FALSE, isClickPlaying |-> FALSE, isHoverPlaying |-> FALSE,
     animationActions |-> [k \in 1..nClips |-> NewAction],
     position |-> finalPositions[i + 1],
     rotation |-> <<Deg(0), Deg(0), Deg(0)>>,
     openTimeline |-> NoTimeline]

\* a slot of bookInstances whose load failed (null)
NullBook ==
    [present |-> FALSE, isOpen |-> FALSE, isClickPlaying |-> FALSE, isHoverPlaying |-> FALSE,
     animationActions |-> <<>>,
     position |-> <<Num(0), Num(0)>>,
     rotation |-> <<Deg(0), Deg(0), Deg(0)>>,
     openTimeline |-> NoTimeline]

isAnyBookOpen(bk) == \E i \in Books : bk[i].present /\ bk[i].isOpen

\* ------------------------------------------------- the open/close timeline
\* the three groups of tracks at progress 0: every tween writes the value it
\* recorded when it first rendered
tlRenderStart(bk, i) ==
    [j \in Books |->
        IF j = i
        THEN [bk[j] EXCEPT !.position = <<Recorded, Recorded>>,
                           !.rotation = <<@[1], @[2], Recorded>>]
        ELSE IF bk[j].present
             THEN [bk[j] EXCEPT !.position = <<Recorded, @[2]>>]
             ELSE bk[j]]

\* at progress 1: rotation z 0, position (0.4, 0), the others at x = 5 or -5
tlRenderEnd(bk, i) ==
    [j \in Books |->
        IF j = i
        THEN [bk[j] EXCEPT !.position = <<Num(40), Num(0)>>,
                           !.rotation = <<@[1], @[2], Deg(0)>>]
        ELSE IF bk[j].present
             THEN [bk[j] EXCEPT !.position = <<Num(IF j < i THEN 500 ELSE -500), @[2]>>]
             ELSE bk[j]]

\* strictly between the ends
tlRenderMid(bk, i) ==
    [j \in Books |->
        IF j = i
        THEN [bk[j] EXCEPT !.position = <<Tween, Tween>>,
                           !.rotation = <<@[1], @[2], Tween>>]
        ELSE IF bk[j].present
             THEN [bk[j] EXCEPT !.position = <<Tween, @[2]>>]
             ELSE bk[j]]

\* openTimeline.progress(v), v = 0 or 1: renders only when the playhead moves
tlSeek(bk, i, toEnd) ==
    LET dest == IF toEnd THEN "end" ELSE "start"
    IN IF bk[i].openTimeline.at = dest THEN bk
       ELSE [(IF toEnd THEN tlRenderEnd(bk, i) ELSE tlRenderStart(bk, i))
                EXCEPT ![i].openTimeline.at = dest]

\* gsap.timeline({onComplete, onReverseComplete}) ... pause(0)
buildTimeline(callback) == [NoTimeline EXCEPT !.built = TRUE, !.callback = callback]

\* ------------------------------------------------- promises and callbacks
\* the closure of one pending aggregate promise: openBookIndices, closedCount
FreePromise == [used |-> FALSE, snapshot |-> {}, closedCount |-> 0]

\* The program state a handler threads through its calls:
\*   bk       this.bookInstances
\*   chain    this.checkAnimationProgress
\*   prom     the closures of the pending promises
\*   handle   this.bookClosePromise
\*   resolved the promises resolve() was called on in this handler
\*   ret      the promise the last closeAllOpenBooksWithPromise returned
\*   ok       FALSE when a bound of the model was exceeded
Here == [bk |-> bookInstances, chain |-> checkChain, prom |-> promises,
         handle |-> bookClosePromise, resolved |-> {}, ret |-> 0, ok |-> TRUE]

\* checkAllClosed of promise id: closedCount++; at the snapshot's length clear the
\* handle and resolve.  A closure whose promise has resolved still counts, still
\* clears the handle, and its resolve() does nothing.
checkAllClosed(st, id) ==
    IF id = StaleCallback \/ ~st.prom[id].used
    THEN [st EXCEPT !.handle = 0]
    ELSE LET n == st.prom[id].closedCount + 1
         IN IF n >= Cardinality(st.prom[id].snapshot)
            THEN [st EXCEPT !.prom[id] = FreePromise, !.handle = 0,
                            !.resolved = @ \cup {id}]
            ELSE [st EXCEPT !.prom[id].closedCount = n]

\* if (callback) callback()
invoke(st, callback) == IF callback = NoCallback THEN st ELSE checkAllClosed(st, callback)

RECURSIVE invokeAll(_, _)
invokeAll(st, cbs) ==
    IF cbs = <<>> THEN st ELSE invokeAll(invoke(st, Head(cbs)), Tail(cbs))

\* ---------------------------------------------------------------- clips
\* mixer.update(delta) on one LoopOnce, clampWhenFinished action
advanceAction(a, delta) ==
    IF a.paused THEN a
    ELSE LET t == a.time + delta * a.timeScale
         IN IF t >= DurationTenths THEN [a EXCEPT !.time = DurationTenths, !.paused = TRUE]
            ELSE IF t < 0 THEN [a EXCEPT !.time = 0, !.paused = TRUE]
            ELSE [a EXCEPT !.time = t]

mixerUpdate(book, delta) ==
    [book EXCEPT !.animationActions =
        [k \in DOMAIN book.animationActions |-> advanceAction(book.animationActions[k], delta)]]

\* the body of the forEach of checkAnimationProgress for clip k
checkAction(book, k) ==
    LET a == book.animationActions[k]
        currentTime == a.time
        forwardLimit == ClickPlayTenths
        hoverForwardLimit == HoverPlayTenths
        b1 == IF book.isClickPlaying
              THEN IF a.timeScale > 0 /\ currentTime >= forwardLimit
                   THEN [book EXCEPT !.animationActions[k].paused = TRUE,
                                     !.animationActions[k].time = forwardLimit,
                                     !.isClickPlaying = FALSE, !.isOpen = TRUE]
                   ELSE IF a.timeScale < 0 /\ currentTime <= 0
                        THEN [book EXCEPT !.animationActions[k].paused = TRUE,
                                          !.animationActions[k].time = 0,
                                          !.isClickPlaying = FALSE, !.isOpen = FALSE]
                        ELSE book
              ELSE book
    IN IF b1.isHoverPlaying
       THEN IF a.timeScale > 0 /\ currentTime >= hoverForwardLimit
            THEN [b1 EXCEPT !.animationActions[k].paused = TRUE,
                            !.animationActions[k].time = hoverForwardLimit,
                            !.isHoverPlaying = FALSE]
            ELSE IF a.timeScale < 0 /\ currentTime <= 0
                 THEN [b1 EXCEPT !.animationActions[k].paused = TRUE,
                                 !.animationActions[k].time = 0,
                                 !.isHoverPlaying = FALSE]
                 ELSE b1
       ELSE b1

RECURSIVE checkFrom(_, _)
checkFrom(book, k) ==
    IF k > Len(book.animationActions) THEN book
    ELSE checkFrom(checkAction(book, k), k + 1)

\* the checkAnimationProgress of the class
checkAnimationProgress(book) == checkFrom(book, 1)

\* ------------------------------------- the wrappers of checkAnimationProgress
\* the positions in chain of the wrappers installed for book i
wrappersOf(chain, i) == {k \in 1..Len(chain) : chain[k].book = i}

\* the callbacks of the wrappers of book i, innermost first
RECURSIVE callbacksOf(_, _, _)
callbacksOf(chain, i, k) ==
    IF k = 0 THEN <<>>
    ELSE IF chain[k].book = i
         THEN <<chain[k].callback>> \o callbacksOf(chain, i, k - 1)
         ELSE callbacksOf(chain, i, k - 1)

Min(S) == CHOOSE x \in S : \A y \in S : x <= y

\* this.checkAnimationProgress(book) with the wrappers installed: every wrapper calls
\* the function it replaced first; then, if it was installed for this book and the
\* book is closed, it puts the function it replaced back and calls its callback.
callCheckAnimationProgress(st, i) ==
    LET b1 == checkAnimationProgress(st.bk[i])
        s1 == [st EXCEPT !.bk[i] = b1]
        fire == ~b1.isClickPlaying /\ ~b1.isOpen /\ wrappersOf(st.chain, i) # {}
    IN IF ~fire THEN s1
       ELSE LET outer == Min(wrappersOf(st.chain, i))
                s2 == [s1 EXCEPT !.chain = SubSeq(st.chain, outer + 1, Len(st.chain))]
            IN invokeAll(s2, callbacksOf(st.chain, i, Len(st.chain)))

\* ------------------------------------------------------------ the toggle
playAll(book, scale) ==
    [book EXCEPT !.animationActions =
        [k \in DOMAIN book.animationActions |->
            [book.animationActions[k] EXCEPT !.paused = FALSE, !.timeScale = scale]]]

pauseAll(book) ==
    [book EXCEPT !.animationActions =
        [k \in DOMAIN book.animationActions |->
            [book.animationActions[k] EXCEPT !.paused = TRUE]]]

\* the toggle past its first test without the cancelling of the hover in progress
toggleLoaded_NoHoverCancel(st, bookIndex, callback) ==
    LET book == st.bk[bookIndex]
    IN   LET \* no hover is cancelled
             b1 == book
             \* build the timeline once; it keeps the callback of this first call
             b2 == IF ~b1.openTimeline.built
                   THEN [b1 EXCEPT !.openTimeline = buildTimeline(callback)]
                   ELSE b1
         IN IF ~b2.isOpen
            THEN \* opening: clips forward; timeScale(1), progress(0), play()
              LET b3 == playAll([b2 EXCEPT !.isClickPlaying = TRUE], 1)
                  bk1 == tlSeek([st.bk EXCEPT ![bookIndex] = b3], bookIndex, FALSE)
              IN [st EXCEPT !.bk = [bk1 EXCEPT ![bookIndex].openTimeline.reversed = FALSE,
                                               ![bookIndex].openTimeline.paused = FALSE]]
            ELSE \* closing: clips backward; a wrapper over checkAnimationProgress;
                 \* timeScale(2), progress(1), reverse()
              LET b3 == playAll([b2 EXCEPT !.isClickPlaying = TRUE], -1)
                  bk1 == tlSeek([st.bk EXCEPT ![bookIndex] = b3], bookIndex, TRUE)
              IN [st EXCEPT !.bk = [bk1 EXCEPT ![bookIndex].openTimeline.reversed = TRUE,
                                               ![bookIndex].openTimeline.paused = FALSE],
                            !.chain = <<[book |-> bookIndex, callback |-> callback]>> \o @,
                            !.ok = @ /\ Len(st.chain) < MaxWrappers]

\* toggleBookAnimationWithCallback(bookIndex, callback) past its first test, on a
\* book with clips
toggleLoaded(st, bookIndex, callback) ==
    LET book == st.bk[bookIndex]
    IN   LET \* cancel any hover in progress
             b1 == IF book.isHoverPlaying
                   THEN pauseAll([book EXCEPT !.isHoverPlaying = FALSE])
                   ELSE book
             \* build the timeline once; it keeps the callback of this first call
             b2 == IF ~b1.openTimeline.built
                   THEN [b1 EXCEPT !.openTimeline = buildTimeline(callback)]
                   ELSE b1
         IN IF ~b2.isOpen
            THEN \* opening: clips forward; timeScale(1), progress(0), play()
              LET b3 == playAll([b2 EXCEPT !.isClickPlaying = TRUE], 1)
                  bk1 == tlSeek([st.bk EXCEPT ![bookIndex] = b3], bookIndex, FALSE)
              IN [st EXCEPT !.bk = [bk1 EXCEPT ![bookIndex].openTimeline.reversed = FALSE,
                                               ![bookIndex].openTimeline.paused = FALSE]]
            ELSE \* closing: clips backward; a wrapper over checkAnimationProgress;
                 \* timeScale(2), progress(1), reverse()
              LET b3 == playAll([b2 EXCEPT !.isClickPlaying = TRUE], -1)
                  bk1 == tlSeek([st.bk EXCEPT ![bookIndex] = b3], bookIndex, TRUE)
              IN [st EXCEPT !.bk = [bk1 EXCEPT ![bookIndex].openTimeline.reversed = TRUE,
                                               ![bookIndex].openTimeline.paused = FALSE],
                            !.chain = <<[book |-> bookIndex, callback |-> callback]>> \o @,
                            !.ok = @ /\ Len(st.chain) < MaxWrappers]

\* the toggle testing only for the empty slot, not for a book without clips
toggleBookAnimationWithCallback_NoClipTest(st, bookIndex, callback) ==
    IF ~st.bk[bookIndex].present
    THEN invoke(st, callback)
    ELSE toggleLoaded(st, bookIndex, callback)

\* toggleBookAnimationWithCallback(bookIndex, callback)
toggleBookAnimationWithCallback(st, bookIndex, callback) ==
    LET book == st.bk[bookIndex]
    IN IF ~book.present \/ Len(book.animationActions) = 0
       THEN invoke(st, callback)
       ELSE toggleLoaded(st, bookIndex, callback)

\* ------------------------------------------------------------- close-all
freeIds(prom) == {id \in 1..MaxPromises : ~prom[id].used}

RECURSIVE toggleEach(_, _, _, _)
toggleEach(st, indices, i, callback) ==
    IF i >= NumBooks THEN st
    ELSE toggleEach(IF i \in indices
                    THEN toggleBookAnimationWithCallback(st, i, callback)
                    ELSE st,
                    indices, i + 1, callback)

\* closeAllOpenBooksWithPromise(): .ret is the promise returned, 0 for a promise
\* that is already resolved
closeAllOpenBooksWithPromise(st) ==
    IF st.handle # 0 THEN [st EXCEPT !.ret = st.handle]
    ELSE IF ~isAnyBookOpen(st.bk) THEN [st EXCEPT !.ret = 0]
    ELSE IF freeIds(st.prom) = {} THEN [st EXCEPT !.ok = FALSE]
    ELSE LET id == Min(freeIds(st.prom))
             openBookIndices == {i \in Books : st.bk[i].present /\ st.bk[i].isOpen}
             s1 == [st EXCEPT !.prom[id] = [used |-> TRUE, snapshot |-> openBookIndices,
                                            closedCount |-> 0],
                              !.handle = id, !.ret = id]
         IN toggleEach(s1, openBookIndices, 0, id)

\* closeAllOpenBooks()
closeAllOpenBooks(st) == closeAllOpenBooksWithPromise(st)

\* ------------------------------------------------------------ the frame
\* the forEach of animate(): books in index order, each through the function
\* this.checkAnimationProgress holds at that moment
RECURSIVE animateFrom(_, _, _)
animateFrom(st, i, delta) ==
    IF i >= NumBooks THEN st
    ELSE LET book == st.bk[i]
         IN animateFrom(IF book.present /\ (book.isClickPlaying \/ book.isHoverPlaying)
                        THEN callCheckAnimationProgress(
                                 [st EXCEPT !.bk[i] = mixerUpdate(book, delta)], i)
                        ELSE st,
                        i + 1, delta)

animate(st, delta) == animateFrom(st, 0, delta)

\* ------------------------------------------------------------- handlers

\* A handler returns the values the program state has when it returns.
IdleRecovery == [phase |-> "idle", target |-> 0, promise |-> 0]

Same == [st |-> Here,
         isClosingFromScroll |-> isClosingFromScroll,
         canInteract |-> canInteract,
         currentHoveredIndex |-> currentHoveredIndex,
         lastProgress |-> lastProgress,
         driverEnabled |-> driverEnabled,
         recovery |-> recovery,
         scrollY |-> scrollY,
         cameraX |-> cameraX]

\* onUpdate with the positions and canInteract updated during a recovery too
onUpdate_NoClosingGuard(p) ==
    LET start == p < lastProgress /\ isAnyBookOpen(bookInstances) /\ ~isClosingFromScroll
        s1 == IF start THEN closeAllOpenBooksWithPromise(Here) ELSE Here
        closing == IF start THEN TRUE ELSE isClosingFromScroll
    IN [Same EXCEPT
          !.st = [s1 EXCEPT !.bk = updateBookPositions(s1.bk, p)],
          !.isClosingFromScroll = closing,
          !.driverEnabled = IF start THEN FALSE ELSE @,
          !.recovery = IF start
                       THEN [phase |-> "closing", target |-> p, promise |-> s1.ret]
                       ELSE @,
          !.canInteract = (p = PMax),
          !.cameraX = cameraXFor(p),
          !.lastProgress = p]

\* onUpdate(self) of the ScrollTrigger, self.progress = p
onUpdate(p) ==
    LET start == p < lastProgress /\ isAnyBookOpen(bookInstances) /\ ~isClosingFromScroll
        \* self.disable(); isClosingFromScroll = true; closeAllOpenBooksWithPromise().then(..)
        s1 == IF start THEN closeAllOpenBooksWithPromise(Here) ELSE Here
        closing == IF start THEN TRUE ELSE isClosingFromScroll
    IN [Same EXCEPT
          !.st = IF ~closing THEN [s1 EXCEPT !.bk = updateBookPositions(s1.bk, p)] ELSE s1,
          !.isClosingFromScroll = closing,
          !.driverEnabled = IF start THEN FALSE ELSE @,
          !.recovery = IF start
                       THEN [phase |-> "closing", target |-> p, promise |-> s1.ret]
                       ELSE @,
          !.canInteract = IF ~closing THEN p = PMax ELSE @,
          !.cameraX = IF ~closing THEN cameraXFor(p) ELSE @,
          !.lastProgress = p]

\* onLeaveBack
onLeaveBack == [Same EXCEPT !.st = closeAllOpenBooks(Here)]

\* the .then() callback without its self.enable()
onAllClosed_NoEnable(r) ==
    [r EXCEPT !.recovery = [@ EXCEPT !.phase = "positioning", !.promise = 0]]

\* the .then() callback of the recovery sequence: self.enable(), the target
\* positions, and the positionTransition timeline with a tween per loaded book
onAllClosed(r) ==
    [r EXCEPT !.driverEnabled = TRUE,
              !.recovery = [@ EXCEPT !.phase = "positioning", !.promise = 0]]

RECURSIVE closeOthers(_, _, _)
closeOthers(st, bookIndex, i) ==
    IF i >= NumBooks THEN st
    ELSE closeOthers(IF st.bk[i].present /\ i # bookIndex /\ st.bk[i].isOpen
                     THEN toggleBookAnimationWithCallback(st, i, NoCallback)
                     ELSE st,
                     bookIndex, i + 1)

\* onCanvasClick(event), the ray hitting a mesh of book bookIndex
onCanvasClick(bookIndex) ==
    IF ~canInteract \/ isClosingFromScroll THEN Same
    ELSE LET s1 == toggleBookAnimationWithCallback(Here, bookIndex, NoCallback)
             book == s1.bk[bookIndex]
         IN [Same EXCEPT !.st = IF book.present /\ ~book.isOpen
                                THEN closeOthers(s1, bookIndex, 0)
                                ELSE s1]

\* animateToFraction(book, fraction), fraction in tenths
animateToFraction(book, fraction) ==
    IF Len(book.animationActions) = 0 THEN book
    ELSE [book EXCEPT
            !.isHoverPlaying = TRUE,
            !.animationActions =
                [k \in DOMAIN book.animationActions |->
                    LET a == book.animationActions[k]
                        targetTime == fraction
                    IN [a EXCEPT !.timeScale = IF a.time < targetTime THEN 1 ELSE -1,
                                 !.paused = FALSE]]]

\* setHoveredBook without its test of isOpen and isClickPlaying
setHoveredBook_NoSkip(r, bookIndex) ==
    LET book == r.st.bk[bookIndex]
        r1 == [r EXCEPT !.currentHoveredIndex = bookIndex]
    IN IF ~book.present THEN r1
       ELSE [r1 EXCEPT !.st.bk[bookIndex] = animateToFraction(book, HoverPlayTenths)]

\* setHoveredBook(bookIndex)
setHoveredBook(r, bookIndex) ==
    LET book == r.st.bk[bookIndex]
        r1 == [r EXCEPT !.currentHoveredIndex = bookIndex]
    IN IF ~book.present THEN r1
       ELSE IF book.isOpen \/ book.isClickPlaying THEN r1
       ELSE [r1 EXCEPT !.st.bk[bookIndex] = animateToFraction(book, HoverPlayTenths)]

\* clearHoveredBook()
clearHoveredBook(r) ==
    IF r.currentHoveredIndex = -1 THEN r
    ELSE LET oldBook == r.st.bk[r.currentHoveredIndex]
             r1 == [r EXCEPT !.currentHoveredIndex = -1]
         IN IF ~oldBook.present THEN r1
            ELSE IF oldBook.isOpen \/ oldBook.isClickPlaying THEN r1
            ELSE [r1 EXCEPT !.st.bk[r.currentHoveredIndex] = animateToFraction(oldBook, 0)]

\* onCanvasMouseMove(event): the ray hits a mesh of book hit, or nothing (hit = -1)
onCanvasMouseMove(hit) ==
    IF ~canInteract THEN Same
    ELSE IF hit # -1
         THEN IF hit = currentHoveredIndex THEN Same
              ELSE setHoveredBook(clearHoveredBook(Same), hit)
         ELSE clearHoveredBook(Same)

\* the mouseleave listener
onMouseLeave == clearHoveredBook(Same)

\* ------------------------------------------------------- the GSAP ticker
\* book i's openTimeline on one tick: forward it goes from "start" to "mid" to "end"
\* (onComplete: pause(), progress(1)); reversed, at timeScale 2, it reaches "start" in
\* the same time (onReverseComplete: pause(), progress(0), if (callback) callback())
tickTimeline(r, i) ==
    LET tl == r.st.bk[i].openTimeline
        b0 == r.st.bk
    IN IF ~tl.reversed
       THEN IF tl.at = "start"
            THEN [r EXCEPT !.st.bk = [tlRenderMid(b0, i) EXCEPT ![i].openTimeline.at = "mid"]]
            ELSE [r EXCEPT !.st.bk = [tlRenderEnd(b0, i) EXCEPT
                                         ![i].openTimeline.at = "end",
                                         ![i].openTimeline.paused = TRUE]]
       ELSE [r EXCEPT !.st = invoke([r.st EXCEPT !.bk =
                                        [tlRenderStart(b0, i) EXCEPT
                                            ![i].openTimeline.at = "start",
                                            ![i].openTimeline.paused = TRUE]],
                                    tl.callback)]

\* positionTransition on one tick: between the ends first, then on the targets of
\* calculateBookPositionsForProgress(targetProgress), where onComplete starts the
\* scroll tween
tickPositionTransition(r) ==
    LET targetProgress == r.recovery.target
        targetBookPositions == calculateBookPositionsForProgress(targetProgress)
    IN IF r.recovery.phase = "positioning"
       THEN [r EXCEPT
               !.recovery.phase = "moving",
               !.st.bk = [i \in Books |->
                            IF ~r.st.bk[i].present THEN r.st.bk[i]
                            ELSE [r.st.bk[i] EXCEPT !.position = <<Tween, Tween>>,
                                                    !.rotation = <<Tween, Tween, Tween>>]]]
       ELSE [r EXCEPT
               !.recovery.phase = "scrolling",
               !.st.bk = [i \in Books |->
                            IF ~r.st.bk[i].present THEN r.st.bk[i]
                            ELSE [r.st.bk[i] EXCEPT
                                     !.position = <<targetBookPositions[i][1],
                                                    targetBookPositions[i][2]>>,
                                     !.rotation = targetRotation(targetProgress, i)]]]

\* the end of the scroll tween: window.scrollTo(0, endScrollY), the flag reset
completeScrollTween(r) ==
    [r EXCEPT !.scrollY = scrollOffsetFor(r.recovery.target),
              !.isClosingFromScroll = FALSE,
              !.recovery = IdleRecovery]

\* the books whose openTimeline is playing
runningTimelines(bk) ==
    {i \in Books : bk[i].present /\ bk[i].openTimeline.built /\ ~bk[i].openTimeline.paused}

RECURSIVE tickTimelines(_, _)
tickTimelines(r, order) ==
    IF order = <<>> THEN r
    ELSE tickTimelines(tickTimeline(r, Head(order)), Tail(order))

tickRecovery(r) ==
    IF r.recovery.phase \in {"positioning", "moving"} THEN tickPositionTransition(r)
    ELSE IF r.recovery.phase = "scrolling" THEN completeScrollTween(r)
    ELSE r

\* the orders in which the ticker can render the animations of the set S
Orders(S) ==
    {o \in [1..Cardinality(S) -> S] : \A a, b \in 1..Cardinality(S) : a # b => o[a] # o[b]}

\* one tick: the running timelines in the order given, the recovery's animation
\* before or after them
gsapTick(order, recoveryFirst) ==
    IF recoveryFirst THEN tickTimelines(tickRecovery(Same), order)
    ELSE tickRecovery(tickTimelines(Same, order))

\* ------------------------------------------------------------- actions
\* settle with the recovery's callback run without waiting for its promise
settle_WithoutWaiting(r) ==
    LET r1 == IF r.recovery.phase = "closing" THEN onAllClosed(r) ELSE r
        chain == [k \in 1..Len(r1.st.chain) |->
                    LET w == r1.st.chain[k]
                    IN IF w.callback > 0 /\ ~r1.st.prom[w.callback].used
                       THEN [w EXCEPT !.callback = StaleCallback]
                       ELSE w]
    IN [r1 EXCEPT !.st.chain = chain]

\* The end of a handler: the promise reactions run (the recovery's .then() callback
\* once its promise has resolved); a wrapper whose promise has resolved keeps a
\* callback that only clears the handle.
settle(r) ==
    LET r1 == IF r.recovery.phase = "closing"
                 /\ (r.recovery.promise = 0 \/ r.recovery.promise \in r.st.resolved)
              THEN onAllClosed(r)
              ELSE r
        chain == [k \in 1..Len(r1.st.chain) |->
                    LET w == r1.st.chain[k]
                    IN IF w.callback > 0 /\ ~r1.st.prom[w.callback].used
                       THEN [w EXCEPT !.callback = StaleCallback]
                       ELSE w]
    IN [r1 EXCEPT !.st.chain = chain]

Apply(r0, due) ==
    LET r == settle(r0)
    IN /\ r.st.ok
       /\ bookInstances' = r.st.bk
       /\ checkChain' = r.st.chain
       /\ promises' = r.st.prom
       /\ bookClosePromise' = r.st.handle
       /\ isClosingFromScroll' = r.isClosingFromScroll
       /\ canInteract' = r.canInteract
       /\ currentHoveredIndex' = r.currentHoveredIndex
       /\ lastProgress' = r.lastProgress
       /\ driverEnabled' = r.driverEnabled
       /\ recovery' = r.recovery
       /\ scrollY' = r.scrollY
       /\ cameraX' = r.cameraX
       /\ leaveBackDue' = due
       /\ UNCHANGED <<pendingLoads, loadedCount, allBooksLoadedCalls>>

\* the user gives one more input of this kind
spend(kind) ==
    IF inputsLeft[kind] < 0 THEN UNCHANGED inputsLeft
    ELSE /\ inputsLeft[kind] > 0
         /\ inputsLeft' = [inputsLeft EXCEPT ![kind] = @ - 1]

\* the fields the constructor sets, and the scroll driver before it is created
Constructed ==
    /\ checkChain = <<>>
    /\ promises = [id \in 1..MaxPromises |-> FreePromise]
    /\ bookClosePromise = 0
    /\ isClosingFromScroll = FALSE
    /\ canInteract = FALSE
    /\ currentHoveredIndex = -1
    /\ lastProgress = 0
    /\ driverEnabled = TRUE
    /\ leaveBackDue = FALSE
    /\ recovery = IdleRecovery
    /\ scrollY = scrollOffsetFor(0)
    /\ cameraX = 10 * PMax
    /\ retoggled = {}

\* the state when onAllBooksLoaded has run: every load settled, the books of the
\* slots in DOMAIN clips loaded with clips[i] animation clips
Loaded(clips) ==
    /\ Constructed
    /\ bookInstances = [i \in Books |-> IF i \in DOMAIN clips THEN NewBook(i, clips[i])
                                                              ELSE NullBook]
    /\ pendingLoads = {}
    /\ loadedCount = NumBooks
    /\ allBooksLoadedCalls = 1

\* any number of scrolls, MaxClicks clicks and MaxPointer pointer events
Init ==
    /\ Loaded(OneClipEach)
    /\ inputsLeft = [click |-> MaxClicks, pointer |-> MaxPointer, scroll |-> -1]

\* the longer sessions: MaxClicksLong clicks
InitLong ==
    /\ Loaded(OneClipEach)
    /\ inputsLeft = [click |-> MaxClicksLong, pointer |-> MaxPointer, scroll |-> -1]

\* three books on the shelf: MaxScrolls scrolls, MaxClicksLong clicks
InitThree ==
    /\ Loaded(ThreeBooks)
    /\ inputsLeft = [click |-> MaxClicksLong, pointer |-> MaxPointer, scroll |-> MaxScrolls]

\* a book with two clips and a book without clips: MaxScrolls scrolls, MaxClicksLong clicks
InitClips ==
    /\ Loaded(TwoClipsAndNone)
    /\ inputsLeft = [click |-> MaxClicksLong, pointer |-> MaxPointer, scroll |-> MaxScrolls]

\* the shelf of clips after a scroll to the end of the range and a click on book 0
\* that has run to its end: book 0 Open in front, the others pushed off the screen
BookZeroOpen(clips) ==
    LET shelf == updateBookPositions(
                    [i \in Books |-> IF i \in DOMAIN clips
                                      THEN NewBook(i, clips[i]) ELSE NullBook],
                    PMax)
        opened == [shelf[0] EXCEPT
                      !.isOpen = TRUE,
                      !.animationActions =
                          [k \in DOMAIN @ |-> [@[k] EXCEPT !.time = ClickPlayTenths]],
                      !.openTimeline = [buildTimeline(NoCallback) EXCEPT !.at = "end"]]
    IN tlRenderEnd([shelf EXCEPT ![0] = opened], 0)

\* book 0 of the shelf of clips Open at the end of the scroll range, all at rest
OpenedAtEnd(clips) ==
    /\ checkChain = <<>>
    /\ promises = [id \in 1..MaxPromises |-> FreePromise]
    /\ bookClosePromise = 0
    /\ isClosingFromScroll = FALSE
    /\ canInteract = TRUE
    /\ currentHoveredIndex = -1
    /\ lastProgress = PMax
    /\ driverEnabled = TRUE
    /\ leaveBackDue = FALSE
    /\ recovery = IdleRecovery
    /\ scrollY = scrollOffsetFor(PMax)
    /\ cameraX = cameraXFor(PMax)
    /\ retoggled = {}
    /\ bookInstances = BookZeroOpen(clips)
    /\ pendingLoads = {}
    /\ loadedCount = NumBooks
    /\ allBooksLoadedCalls = 1

\* a session that goes on from book 0 of two Open: MaxClicks clicks and MaxScrolls
\* scrolls, the pointer staying where it is
InitOpen ==
    /\ OpenedAtEnd(OneClipEach)
    /\ inputsLeft = [click |-> MaxClicks, pointer |-> 0, scroll |-> MaxScrolls]

\* a session that goes on from book 0 of three Open: MaxClicks + 1 clicks and
\* MaxScrolls + 1 scrolls, the pointer staying where it is
InitOpenThree ==
    /\ OpenedAtEnd(ThreeBooks)
    /\ inputsLeft = [click |-> MaxClicks + 1, pointer |-> 0, scroll |-> MaxScrolls + 1]

\* a session of pointer moves: MaxPointer + 2 pointer events and MaxScrolls scrolls,
\* no click
InitHover ==
    /\ Loaded(OneClipEach)
    /\ inputsLeft = [click |-> 0, pointer |-> MaxPointer + 2, scroll |-> MaxScrolls]

\* The scroll driver calls onUpdate when it is enabled and its progress changes, and
\* onLeaveBack right after the onUpdate that brought the progress to 0, unless that
\* onUpdate disabled it.
Deliver(p, y) ==
    LET r == [onUpdate(p) EXCEPT !.scrollY = y]
    IN Apply(r, p = 0 /\ r.driverEnabled)

\* the user scrolls the document to the offset of progress p
UserScroll(p) ==
    /\ ~leaveBackDue
    /\ spend("scroll")
    /\ scrollOffsetFor(p) # scrollY
    /\ IF driverEnabled /\ p # lastProgress
       THEN Deliver(p, scrollOffsetFor(p))
       ELSE Apply([Same EXCEPT !.scrollY = scrollOffsetFor(p)], FALSE)
    /\ UNCHANGED retoggled

\* the driver notices an offset the program scrolled to, or one reached while disabled
DriverCatchUp(p) ==
    /\ ~leaveBackDue
    /\ driverEnabled
    /\ scrollOffsetFor(p) = scrollY
    /\ p # lastProgress
    /\ Deliver(p, scrollY)
    /\ UNCHANGED <<inputsLeft, retoggled>>

LeaveBack ==
    /\ leaveBackDue
    /\ Apply(onLeaveBack, FALSE)
    /\ UNCHANGED <<inputsLeft, retoggled>>

Click(i) ==
    /\ ~leaveBackDue
    /\ bookInstances[i].present
    /\ spend("click")
    /\ Apply(onCanvasClick(i), FALSE)
    /\ retoggled' = IF /\ canInteract /\ ~isClosingFromScroll
                       /\ bookInstances[i].isClickPlaying /\ ~bookInstances[i].isOpen
                    THEN retoggled \cup {i}
                    ELSE retoggled

MouseMove(hit) ==
    /\ ~leaveBackDue
    /\ hit # -1 => bookInstances[hit].present
    /\ spend("pointer")
    /\ Apply(onCanvasMouseMove(hit), FALSE)
    /\ UNCHANGED retoggled

MouseLeave ==
    /\ ~leaveBackDue
    /\ spend("pointer")
    /\ Apply(onMouseLeave, FALSE)
    /\ UNCHANGED retoggled

\* requestAnimationFrame: animate() with clock.getDelta() = delta
FrameTick(delta) ==
    /\ ~leaveBackDue
    /\ Apply([Same EXCEPT !.st = animate(Here, delta)], FALSE)
    /\ UNCHANGED <<inputsLeft, retoggled>>

\* a tick of the GSAP ticker while some GSAP animation is running
GsapTick(order, recoveryFirst) ==
    /\ ~leaveBackDue
    /\ runningTimelines(bookInstances) # {}
         \/ recovery.phase \in {"positioning", "moving", "scrolling"}
    /\ Apply(gsapTick(order, recoveryFirst), FALSE)
    /\ UNCHANGED <<inputsLeft, retoggled>>

Next ==
    \/ \E p \in Progress : UserScroll(p)
    \/ \E p \in Progress : DriverCatchUp(p)
    \/ LeaveBack
    \/ \E i \in Books : Click(i)
    \/ \E hit \in Books \cup {-1} : MouseMove(hit)
    \/ MouseLeave
    \/ \E delta \in Deltas : FrameTick(delta)
    \/ \E order \in Orders(runningTimelines(bookInstances)), recoveryFirst \in BOOLEAN :
          GsapTick(order, recoveryFirst)

Spec == Init /\ [][Next]_vars

SpecLong == InitLong /\ [][Next]_vars

SpecThree == InitThree /\ [][Next]_vars

SpecClips == InitClips /\ [][Next]_vars

\* the steps of a session in which the pointer does not move
NextOpen ==
    \/ \E p \in Progress : UserScroll(p)
    \/ \E p \in Progress : DriverCatchUp(p)
    \/ LeaveBack
    \/ \E i \in Books : Click(i)
    \/ \E delta \in Deltas : FrameTick(delta)
    \/ \E order \in Orders(runningTimelines(bookInstances)), recoveryFirst \in BOOLEAN :
          GsapTick(order, recoveryFirst)

SpecOpen == InitOpen /\ [][NextOpen]_vars

SpecOpenThree == InitOpenThree /\ [][NextOpen]_vars

\* the steps of a session without clicks: no timeline is built and no recovery starts
NextHover ==
    \/ \E p \in Progress : UserScroll(p)
    \/ LeaveBack
    \/ \E hit \in Books \cup {-1} : MouseMove(hit)
    \/ MouseLeave
    \/ \E delta \in Deltas : FrameTick(delta)

SpecHover == InitHover /\ [][NextHover]_vars

\* --------------------------------------------------------------- loading
\* loadBooks has issued the loads: every slot null, no load settled yet; only the loads
\* of the first MaxLoadedBooks slots may succeed, and the user gives MaxClicks clicks,
\* MaxPointer pointer events and MaxScrolls scrolls
InitLoad ==
    /\ Constructed
    /\ bookInstances = [i \in Books |-> NullBook]
    /\ pendingLoads = Books
    /\ loadedCount = 0
    /\ allBooksLoadedCalls = 0
    /\ inputsLeft = [click |-> MaxClicks, pointer |-> MaxPointer, scroll |-> MaxScrolls]

\* the tail of both callbacks of gltfLoader.load(): loadedCount++, and
\* onAllBooksLoaded() when it equals this.books.length
countLoad_NoTest ==
    /\ loadedCount' = loadedCount + 1
    /\ allBooksLoadedCalls' = allBooksLoadedCalls + 1

countLoad ==
    /\ loadedCount' = loadedCount + 1
    /\ allBooksLoadedCalls' = IF loadedCount + 1 = NumBooks THEN allBooksLoadedCalls + 1
                                                            ELSE allBooksLoadedCalls

\* the success callback of the load of slot index
LoadSucceeds(index, nClips) ==
    /\ index \in pendingLoads
    /\ index < MaxLoadedBooks
    /\ pendingLoads' = pendingLoads \ {index}
    /\ bookInstances' = [bookInstances EXCEPT ![index] = NewBook(index, nClips)]
    /\ countLoad
    /\ UNCHANGED <<checkChain, promises, bookClosePromise, isClosingFromScroll, canInteract,
                   currentHoveredIndex, lastProgress, driverEnabled, leaveBackDue, recovery,
                   scrollY, cameraX, inputsLeft, retoggled>>

\* the error callback of the load of slot index
LoadFails(index) ==
    /\ index \in pendingLoads
    /\ pendingLoads' = pendingLoads \ {index}
    /\ countLoad
    /\ UNCHANGED <<bookInstances, checkChain, promises, bookClosePromise,
                   isClosingFromScroll, canInteract, currentHoveredIndex, lastProgress,
                   driverEnabled, leaveBackDue, recovery, scrollY, cameraX, inputsLeft,
                   retoggled>>

\* onAllBooksLoaded adds the listeners, starts the frame loop and creates the scroll
\* driver: the handlers run only after it
ListenersAdded == allBooksLoadedCalls > 0

NextLoad ==
    \/ \E index \in Books, nClips \in ClipCounts : LoadSucceeds(index, nClips)
    \/ \E index \in Books : LoadFails(index)
    \/ ListenersAdded /\ \E p \in Progress : UserScroll(p)
    \/ ListenersAdded /\ \E p \in Progress : DriverCatchUp(p)
    \/ ListenersAdded /\ LeaveBack
    \/ ListenersAdded /\ \E i \in Books : Click(i)
    \/ ListenersAdded /\ \E hit \in Books \cup {-1} : MouseMove(hit)
    \/ ListenersAdded /\ MouseLeave
    \/ ListenersAdded /\ \E delta \in Deltas : FrameTick(delta)
    \/ ListenersAdded /\ \E order \in Orders(runningTimelines(bookInstances)),
                              recoveryFirst \in BOOLEAN :
                             GsapTick(order, recoveryFirst)

SpecLoad == InitLoad /\ [][NextLoad]_vars

\* ------------------------------------------------------------- properties
\* the driver calls onUpdate with progress p in this step
Delivered(p) ==
    \/ UserScroll(p) /\ driverEnabled /\ p # lastProgress
    \/ DriverCatchUp(p)

\* the flags and clips of the books
InteractionState ==
    [i \in Books |->
        IF bookInstances[i].present
        THEN <<bookInstances[i].isOpen, bookInstances[i].isClickPlaying,
               bookInstances[i].isHoverPlaying, bookInstances[i].animationActions>>
        ELSE <<>>]

\* some clip, timeline or recovery animation is still running
AnimationsRunning ==
    \/ \E i \in Books : /\ bookInstances[i].present
                        /\ bookInstances[i].isClickPlaying \/ bookInstances[i].isHoverPlaying
    \/ runningTimelines(bookInstances) # {}
    \/ recovery.phase \in {"positioning", "moving", "scrolling"}

\* the aggregate promises created and not yet resolved
Pending == {id \in 1..MaxPromises : promises[id].used}

\* C1: a scroll update that runs updateBookPositions leaves the position and the
\* rotation of every book that has isOpen or isClickPlaying set as they were.
C1_TransformOwnership ==
    [][\A p \in Progress :
          Delivered(p) /\ ~isClosingFromScroll'
          => \A i \in Books :
                /\ bookInstances[i].present
                /\ bookInstances[i].isOpen \/ bookInstances[i].isClickPlaying
                => /\ bookInstances'[i].position = bookInstances[i].position
                   /\ bookInstances'[i].rotation = bookInstances[i].rotation]_vars

\* a book is in its click transition after a scroll update below the end moved the
\* other book to its placement and left this one where it was
C1_Witness ==
    \E i, j \in Books :
        /\ i # j /\ bookInstances[i].present /\ bookInstances[j].present
        /\ bookInstances[i].isClickPlaying
        /\ ~canInteract /\ lastProgress < PMax /\ ~isClosingFromScroll
        /\ bookInstances[j].position = <<orbitX(lastProgress, j), orbitY(lastProgress, j)>>
        /\ bookInstances[i].position # <<orbitX(lastProgress, i), orbitY(lastProgress, i)>>

\* C2: no book's transform has two active writers: at most one animation that moves
\* the books (an open/close timeline, whose tracks move every loaded book, or the
\* position transition of the recovery) is running at a time.
C2_SingleWriter ==
    Cardinality(runningTimelines(bookInstances))
      + (IF recovery.phase \in {"positioning", "moving"} THEN 1 ELSE 0) <= 1

\* C3: a pending close-all has counted every book of its snapshot that has finished
\* closing.
C3_EveryCloseCounted ==
    \A id \in Pending :
        promises[id].closedCount >=
            Cardinality({i \in promises[id].snapshot :
                            ~bookInstances[i].isOpen /\ ~bookInstances[i].isClickPlaying})

\* C4: a close-all is pending only while something is still running, so that frame
\* ticks bring it to its resolution.
C4_CloseAllResolves == Pending # {} => AnimationsRunning

\* C5: at most one aggregate close-all is in flight.
C5_AtMostOneInFlight == Cardinality(Pending) <= 1

\* C6: a recovery sequence is in progress only while something is still running, so
\* that frame ticks and animation completions bring it back to idle.
C6_RecoveryCompletes == isClosingFromScroll => AnimationsRunning

\* C7: an onUpdate delivered while isClosingFromScroll is true moves no book, leaves
\* canInteract as it is and starts no second recovery: the driver stays as it is and
\* no close-all is requested.
C7_RecoverySuppressesScroll ==
    [][\A p \in Progress :
          Delivered(p) /\ isClosingFromScroll
          => /\ bookInstances' = bookInstances
             /\ canInteract' = canInteract
             /\ cameraX' = cameraX
             /\ driverEnabled' = driverEnabled
             /\ recovery' = recovery
             /\ isClosingFromScroll'
             /\ promises' = promises
             /\ bookClosePromise' = bookClosePromise
             /\ checkChain' = checkChain]_vars

\* an onUpdate has been delivered since the recovery in progress started
C7_Witness ==
    /\ isClosingFromScroll
    /\ driverEnabled
    /\ lastProgress # recovery.target

\* C8: when a recovery to progress p returns to idle with every animation at rest,
\* every loaded book is Closed at its orbit placement for p and the document is
\* scrolled to start + (end - start) * p.
C8_AfterRecovery ==
    [][isClosingFromScroll /\ ~isClosingFromScroll' /\ ~AnimationsRunning'
       => /\ scrollY' = scrollOffsetFor(recovery.target)
          /\ \A i \in Books :
                bookInstances[i].present
                => /\ ~bookInstances'[i].isOpen
                   /\ bookInstances'[i].position =
                         <<orbitX(recovery.target, i), orbitY(recovery.target, i)>>
                   /\ bookInstances'[i].rotation = orbitRotation(recovery.target, i)]_vars

\* C9: a click, a pointer move or a pointer leave changes no flag, no clip
\* and not the hovered index unless canInteract is true and isClosingFromScroll false.
C9_InteractionGated ==
    [][/\ \/ \E i \in Books : Click(i)
          \/ \E hit \in Books \cup {-1} : MouseMove(hit)
          \/ MouseLeave
       /\ ~canInteract \/ isClosingFromScroll
       => /\ InteractionState' = InteractionState
          /\ currentHoveredIndex' = currentHoveredIndex]_vars

\* C10: canInteract is true only if the progress last reported is 1.
C10_InteractOnlyAtEnd == canInteract => lastProgress = PMax

\* a book in the settled states of its open/close transition
IsOpenSettled(i) ==
    bookInstances[i].present /\ bookInstances[i].isOpen /\ ~bookInstances[i].isClickPlaying

IsClosedSettled(i) ==
    bookInstances[i].present /\ ~bookInstances[i].isOpen /\ ~bookInstances[i].isClickPlaying

\* C11: at most one book is in the settled Open state.
C11_OneBookOpen == Cardinality({i \in Books : IsOpenSettled(i)}) <= 1

\* book i is Closing: its clips run backward towards the close
IsClosing(i) ==
    /\ bookInstances[i].present
    /\ bookInstances[i].isClickPlaying
    /\ \A k \in DOMAIN bookInstances[i].animationActions :
          bookInstances[i].animationActions[k].timeScale < 0

\* C12: an accepted click on a Closed book k while another book is Open leaves every
\* book other than k Closed or Closing, so that the frame ticks that follow settle
\* every book other than k to Closed while k opens.
C12_OthersCloseOnOpen ==
    [][\A k \in Books :
          /\ Click(k)
          /\ canInteract /\ ~isClosingFromScroll
          /\ IsClosedSettled(k)
          /\ \E j \in Books \ {k} : IsOpenSettled(j)
          => /\ bookInstances'[k].isClickPlaying
             /\ \A m \in Books \ {k} :
                   bookInstances[m].present => IsClosedSettled(m)' \/ IsClosing(m)']_vars

\* the two settled ends of the open/close transition of book i, flag, clips and
\* timeline together
FullyOpen(i) ==
    /\ IsOpenSettled(i)
    /\ \A k \in DOMAIN bookInstances[i].animationActions :
          bookInstances[i].animationActions[k].time = ClickPlayTenths
    /\ bookInstances[i].openTimeline.at = "end"

FullyClosed(i) ==
    /\ IsClosedSettled(i)
    /\ \A k \in DOMAIN bookInstances[i].animationActions :
          bookInstances[i].animationActions[k].time = 0
    /\ bookInstances[i].openTimeline.at = "start"

\* C13: a book that was toggled a second time while it was Opening is, once nothing
\* is in flight any more and the pointer is not on it, fully Open or fully Closed.
C13_ToggleTwiceSettles ==
    \A i \in retoggled :
        ~AnimationsRunning /\ currentHoveredIndex # i => FullyOpen(i) \/ FullyClosed(i)

\* the books of the snapshot of promise id that reach full close in this step
ClosedInStep(id) ==
    {i \in promises[id].snapshot :
        /\ bookInstances[i].isClickPlaying
        /\ ~bookInstances'[i].isClickPlaying /\ ~bookInstances'[i].isOpen}

\* the invocations of checkAllClosed of promise id in this step
InvokedInStep(id) ==
    IF promises'[id].used
    THEN promises'[id].closedCount - promises[id].closedCount
    ELSE Cardinality(promises[id].snapshot) - promises[id].closedCount

\* C14: the callback of a closing toggle is invoked once in the step in which its
\* book reaches full close and in no other step: in every step a pending close-all
\* is called back once per book of its snapshot that reaches full close, and its
\* handle is cleared only by the invocation that resolves it.
C14_CallbackOncePerClose ==
    [][/\ \A id \in Pending : InvokedInStep(id) = Cardinality(ClosedInStep(id))
       /\ bookClosePromise # 0 /\ bookClosePromise' = 0
          => ~promises'[bookClosePromise].used]_vars

\* C15: the aggregate close-all resolves only when the open/close timeline of every
\* book of its snapshot has completed its reverse run and rests at progress 0.
C15_ResolveAfterReverseComplete ==
    [][\A id \in Pending :
          ~promises'[id].used
          => \A i \in promises[id].snapshot :
                /\ bookInstances'[i].openTimeline.at = "start"
                /\ bookInstances'[i].openTimeline.paused]_vars

\* C16: a book that is settled Open has every clip at the forward limit of the click
\* and its open/close timeline at progress 1.
C16_OpenMeansAtLimits ==
    \A i \in Books : IsOpenSettled(i) => FullyOpen(i)

\* book i is Opening: its clips run forward and its timeline plays forward
IsOpening(i) ==
    /\ bookInstances[i].present
    /\ bookInstances[i].isClickPlaying /\ ~bookInstances[i].isOpen
    /\ \A k \in DOMAIN bookInstances[i].animationActions :
          /\ bookInstances[i].animationActions[k].timeScale > 0
          /\ ~bookInstances[i].animationActions[k].paused
    /\ ~bookInstances[i].openTimeline.paused /\ ~bookInstances[i].openTimeline.reversed

\* a tick of the render loop or of the GSAP ticker: a step without input
TickStep ==
    \/ \E delta \in Deltas : FrameTick(delta)
    \/ \E order \in Orders(runningTimelines(bookInstances)), recoveryFirst \in BOOLEAN :
          GsapTick(order, recoveryFirst)

\* C17: an accepted click on a Closed book with clips makes it Opening; when it has
\* become Open and everything is at rest, its clips are at 0.9 x duration and its
\* timeline at progress 1; and the ticks that follow leave them there.
C17_ClickOpensAndHolds ==
    [][/\ \A k \in Books :
             /\ Click(k) /\ canInteract /\ ~isClosingFromScroll
             /\ IsClosedSettled(k) /\ Len(bookInstances[k].animationActions) > 0
             => IsOpening(k)'
       /\ \A i \in Books :
             IsOpenSettled(i)' /\ ~AnimationsRunning' => FullyOpen(i)'
       /\ \A i \in Books :
             TickStep /\ FullyOpen(i) => FullyOpen(i)']_vars

\* the forward limit of the mode the clips of book i were last played in: the click
\* limit while the book is Opening or Open, the hover limit otherwise
ForwardLimit(i) ==
    IF bookInstances[i].isOpen \/ bookInstances[i].isClickPlaying
    THEN ClickPlayTenths
    ELSE HoverPlayTenths

\* C18: at the end of every frame tick every clip of every book that plays forward
\* is at most at the forward limit of its mode, and every clip that plays in reverse
\* is at least at 0.
C18_ClampedAfterFrame ==
    [][(\E delta \in Deltas : FrameTick(delta))
       => \A i \in Books : \A k \in DOMAIN bookInstances'[i].animationActions :
             LET a == bookInstances'[i].animationActions[k]
             IN /\ a.timeScale > 0 => a.time <= ForwardLimit(i)'
                /\ a.timeScale < 0 => a.time >= 0]_vars

\* the slots a toggle has nothing to play for: empty, or a book without clips
NothingToPlay(i) ==
    ~bookInstances[i].present \/ Len(bookInstances[i].animationActions) = 0

\* C19: in every reachable state a toggle of an empty slot or of a book without clips
\* changes no book, installs no wrapper and, given the callback of a pending
\* close-all, invokes it once before it returns: one more close counted, or the
\* close-all resolved when that was the last one.
C19_EmptyToggleOnlyCallsBack ==
    \A i \in Books :
        NothingToPlay(i)
        => /\ toggleBookAnimationWithCallback(Here, i, NoCallback) = Here
           /\ \A id \in Pending :
                 LET r == toggleBookAnimationWithCallback(Here, i, id)
                     n == promises[id].closedCount + 1
                 IN /\ r.bk = bookInstances
                    /\ r.chain = checkChain
                    /\ r.ok
                    /\ \A other \in Pending \ {id} : r.prom[other] = promises[other]
                    /\ IF n >= Cardinality(promises[id].snapshot)
                       THEN ~r.prom[id].used /\ r.resolved = {id} /\ r.handle = 0
                       ELSE /\ r.prom[id] = [promises[id] EXCEPT !.closedCount = n]
                            /\ r.resolved = {} /\ r.handle = bookClosePromise

\* a close-all is pending next to a book without clips, and a click has been given
C19_Witness ==
    /\ Pending # {}
    /\ \E i \in Books : bookInstances[i].present /\ Len(bookInstances[i].animationActions) = 0
    /\ inputsLeft.click < MaxClicksLong

\* C20: a close-all requested while no book has isOpen set returns a promise that is
\* already resolved, toggles no book and changes nothing.
C20_CloseAllOfNothing ==
    [][LeaveBack /\ ~isAnyBookOpen(bookInstances)
       => /\ closeAllOpenBooksWithPromise(Here).ret = 0
          /\ bookInstances' = bookInstances
          /\ checkChain' = checkChain
          /\ promises' = promises
          /\ bookClosePromise' = bookClosePromise]_vars

\* C21: whatever the order in which the loads succeed or fail, onAllBooksLoaded is
\* called exactly once, and only when every load has settled; loadedCount counts the
\* settled loads; a slot whose load failed (or has not settled) holds null, and no
\* scroll update, close-all, timeline or recovery transition ever writes to it.
C21_LoadedOnceNullSkipped ==
    /\ loadedCount = NumBooks - Cardinality(pendingLoads)
    /\ allBooksLoadedCalls = (IF pendingLoads = {} THEN 1 ELSE 0)
    /\ \A i \in Books :
          /\ i \in pendingLoads => ~bookInstances[i].present
          /\ ~bookInstances[i].present => bookInstances[i] = NullBook

\* every load has settled, one failed, and the recovery has closed a book whose timeline
\* was built next to the null slot and moved the books back to their orbit
C21_Witness ==
    /\ allBooksLoadedCalls = 1
    /\ \E i, j \in Books :
          /\ ~bookInstances[i].present
          /\ bookInstances[j].openTimeline.built
    /\ recovery.phase = "scrolling"

\* C22: an onUpdate with progress p that finds no recovery in flight and starts none
\* puts every Closed book (isOpen false, isClickPlaying false) at the orbit position
\* and rotation of p for its index, and sets canInteract to (p = 1, here PMax).
C22_SteadyScrollUpdate ==
    [][\A p \in Progress :
          Delivered(p) /\ ~isClosingFromScroll'
          => /\ canInteract' = (p = PMax)
             /\ \A i \in Books :
                   /\ bookInstances[i].present
                   /\ ~bookInstances[i].isOpen
                   /\ ~bookInstances[i].isClickPlaying
                   => /\ bookInstances'[i].position = <<orbitX(p, i), orbitY(p, i)>>
                      /\ bookInstances'[i].rotation = orbitRotation(p, i)]_vars

\* a Closed book whose hover preview started at the end of the scroll range has been
\* moved by a later update to the middle of the range, which disabled interaction
C22_Witness ==
    /\ ~isClosingFromScroll
    /\ ~canInteract
    /\ lastProgress = 1
    /\ \E i \in Books :
          /\ bookInstances[i].isHoverPlaying
          /\ ~bookInstances[i].isOpen /\ ~bookInstances[i].isClickPlaying
          /\ bookInstances[i].position = <<orbitX(1, i), orbitY(1, i)>>
          /\ bookInstances[i].rotation = orbitRotation(1, i)

\* C23: onLeaveBack toggles every book that is Open at that moment into Closing,
\* whatever canInteract, isClosingFromScroll and the other books are; and a frame tick
\* either brings a Closing book to Closed or moves each of its clips nearer to the
\* close, so that frame ticks alone bring the book to Closed.
C23_LeaveBackClosesOpenBooks ==
    [][/\ LeaveBack => \A i \in Books : IsOpenSettled(i) => IsClosing(i)'
       /\ \A delta \in Deltas :
             FrameTick(delta)
             => \A i \in Books :
                   IsClosing(i)
                   => \/ IsClosedSettled(i)'
                      \/ /\ IsClosing(i)'
                         /\ \A k \in DOMAIN bookInstances[i].animationActions :
                               bookInstances'[i].animationActions[k].time
                                  < bookInstances[i].animationActions[k].time]_vars

C25_HoverComesToRest ==
    \A i \in Books :
        /\ IsClosedSettled(i)
        /\ ~bookInstances[i].isHoverPlaying
        => \A k \in DOMAIN bookInstances[i].animationActions :
              bookInstances[i].animationActions[k].time
                 = (IF currentHoveredIndex = i THEN HoverPlayTenths ELSE 0)

C27_RecoveryStepsInOrder ==
    [][/\ recovery.phase = "closing" => ~driverEnabled /\ isClosingFromScroll
       /\ recovery'.phase = "closing" /\ recovery.phase # "closing"
          => /\ recovery.phase = "idle" /\ ~isClosingFromScroll
             /\ ~driverEnabled' /\ isClosingFromScroll'
       /\ (driverEnabled' /\ ~driverEnabled)
            \/ (recovery'.phase = "positioning" /\ recovery.phase # "positioning")
          => /\ recovery.phase = "closing" /\ recovery'.phase = "positioning"
             /\ driverEnabled' /\ ~driverEnabled
             /\ recovery.promise # 0 => ~promises'[recovery.promise].used
       /\ recovery'.phase = "moving" /\ recovery.phase # "moving"
          => recovery.phase = "positioning"
       /\ recovery'.phase = "scrolling" /\ recovery.phase # "scrolling"
          => recovery.phase = "moving"
       /\ isClosingFromScroll /\ ~isClosingFromScroll'
          => /\ recovery.phase = "scrolling" /\ recovery'.phase = "idle"
             /\ scrollY' = scrollOffsetFor(recovery.target)]_vars

\* a recovery in its last step: the close-all has resolved, the driver is enabled
\* again, the books have been moved and the scroll tween is running
C27_Witness ==
    /\ recovery.phase = "scrolling"
    /\ isClosingFromScroll
    /\ driverEnabled
    /\ \A i \in Books : ~bookInstances[i].isOpen

\* C28: in a step taken while an aggregate close-all is pending no book becomes Open,
\* and the completion counter of the close-all is incremented only for a book of the
\* snapshot taken when it was issued: every wrapper that carries its callback was
\* installed for a book of the snapshot, and the counter moves only in a step in which
\* such a wrapper's book is closed.
C28_NoOpeningWhilePending ==
    [][\A id \in Pending :
          /\ \A i \in Books : IsOpenSettled(i)' => IsOpenSettled(i)
          /\ \A k \in DOMAIN checkChain :
                checkChain[k].callback = id => checkChain[k].book \in promises[id].snapshot
          /\ InvokedInStep(id) > 0
             => \E i \in promises[id].snapshot :
                   ~bookInstances'[i].isOpen /\ ~bookInstances'[i].isClickPlaying]_vars

\* C29: an accepted click on a book whose transition is in flight turns the transition
\* round: an Opening book starts closing (clips at rate -1, timeline reversed) and a
\* Closing book starts opening (clips at rate +1, timeline forward).
C29_ToggleInFlightTurnsRound ==
    [][\A i \in Books :
          Click(i) /\ canInteract /\ ~isClosingFromScroll
          => /\ IsOpening(i)
                => /\ IsClosing(i)'
                   /\ bookInstances'[i].openTimeline.reversed
             /\ IsClosing(i)
                => /\ IsOpening(i)'
                   /\ ~bookInstances'[i].openTimeline.reversed]_vars

\* C30: whenever no book is Closing, this.checkAnimationProgress is the original
\* function: every wrapper a closing toggle installed has run its completion branch
\* and none is left installed.
C30_NoWrapperLeft ==
    (\A i \in Books : ~IsClosing(i)) => checkChain = <<>>

\* C31: in the step that sets isClosingFromScroll back to false, the end of a recovery,
\* no loaded book has isOpen or isClickPlaying set, the books that were Opening when
\* the scroll reversal was detected included.
C31_AllClosedAtRecoveryEnd ==
    [][isClosingFromScroll /\ ~isClosingFromScroll'
       => \A i \in Books :
             bookInstances'[i].present
             => ~bookInstances'[i].isOpen /\ ~bookInstances'[i].isClickPlaying]_vars

C33_DisabledOnlyWhileClosing ==
    ~driverEnabled
    => /\ isClosingFromScroll
       /\ recovery.phase = "closing"
       /\ recovery.promise \in Pending

\* a recovery waits for its close-all with the driver disabled while a book of the
\* snapshot is still closing
C33_Witness ==
    /\ ~driverEnabled
    /\ recovery.promise \in Pending
    /\ \E i \in promises[recovery.promise].snapshot :
          /\ IsClosing(i)
          /\ bookInstances[i].animationActions[1].time < ClickPlayTenths

====
